---- MODULE Spec2Model ----
(* Model of imgy (src/src/main.rs): the filename-extension resolver          *)
(* (impl FromStr for Extension, impl Display for Extension) and the          *)
(* conversion driver (main / run).                                           *)
(*                                                                           *)
(* A Rust &str / String is a sequence of one-character strings.              *)
(* Result<T, Error> is a record [ok, val, err]; Error is a record            *)
(* [kind, text, arg] where kind is the enum variant, text the format string  *)
(* of the message and arg the value substituted for its placeholder.         *)
EXTENDS Integers, Sequences, FiniteSets, TLC

(***************************************************************************)
(* Bounds and input alphabets                                              *)
(***************************************************************************)
MaxSegs == 3
MaxCliSegs == 2

DOT == "."

png == <<"p", "n", "g">>
jpg == <<"j", "p", "g">>
jpeg == <<"j", "p", "e", "g">>
webp == <<"w", "e", "b", "p">>

Tokens ==
  { <<>>, <<"x">>, <<"f", "i", "l", "e">>, <<"s", "o", "m", "e">>,
    png, jpg, jpeg, webp,
    <<"b", "m", "p">>, <<"g", "i", "f">>, <<"P", "N", "G">> }

CliTokens ==
  { <<"p", "h", "o", "t", "o">>, png, jpg, jpeg, <<"t", "x", "t">> }

RECURSIVE join(_)
join(segs) ==
  IF Len(segs) = 1 THEN segs[1]
  ELSE segs[1] \o <<DOT>> \o join(Tail(segs))

SegSeqs(toks, n) == UNION { [1..k -> toks] : k \in 1..n }

Paths == { join(segs) : segs \in SegSeqs(Tokens, MaxSegs) }

CliPaths == { join(segs) : segs \in SegSeqs(CliTokens, MaxCliSegs) }

(***************************************************************************)
(* Result and Error values                                                 *)
(***************************************************************************)
NoErr == [kind |-> "none", text |-> "", arg |-> <<>>]

Ok(v) == [ok |-> TRUE, val |-> v, err |-> NoErr]

Err(e) == [ok |-> FALSE, val |-> "none", err |-> e]

Pending == [ok |-> FALSE, val |-> "pending", err |-> NoErr]

format(text, a) == [text |-> text, arg |-> a]

From_String(str) == [kind |-> "Extension", text |-> str.text, arg |-> str.arg]

From_ImageError_as_Io(e) == [kind |-> "Io", text |-> e, arg |-> <<>>]

From_ImageError(e) == [kind |-> "Image", text |-> e, arg |-> <<>>]

Display_Error(e) ==
  [prefix |-> CASE e.kind = "Image" -> "Image conversion error: {0}"
                [] e.kind = "Extension" -> "File format error: {0}"
                [] e.kind = "Io" -> "IO error: {0}"
                [] OTHER -> "",
   text |-> e.text, arg |-> e.arg]

(***************************************************************************)
(* Extension, Display and FromStr                                          *)
(***************************************************************************)
Extension == {"Png", "Jpeg", "Webp"}

fmt_jpg(e) ==
  CASE e = "Png" -> png
    [] e = "Jpeg" -> jpg
    [] e = "Webp" -> webp

fmt(e) ==
  CASE e = "Png" -> png
    [] e = "Jpeg" -> jpeg
    [] e = "Webp" -> webp

RECURSIVE split_terminator(_, _)
split_terminator(s, sep) ==
  IF s = <<>> THEN <<>>
  ELSE IF \E i \in 1..Len(s) : s[i] = sep
  THEN LET i == CHOOSE k \in 1..Len(s) :
                  s[k] = sep /\ \A m \in 1..(k - 1) : s[m] # sep
       IN <<SubSeq(s, 1, i - 1)>> \o split_terminator(SubSeq(s, i + 1, Len(s)), sep)
  ELSE <<s>>

RECURSIVE split(_, _)
split(s, sep) ==
  IF \E i \in 1..Len(s) : s[i] = sep
  THEN LET i == CHOOSE k \in 1..Len(s) :
                  s[k] = sep /\ \A m \in 1..(k - 1) : s[m] # sep
       IN <<SubSeq(s, 1, i - 1)>> \o split(SubSeq(s, i + 1, Len(s)), sep)
  ELSE <<s>>

None == [some |-> FALSE, v |-> <<>>]

Some(x) == [some |-> TRUE, v |-> x]

last(parts) == IF Len(parts) = 0 THEN None ELSE Some(parts[Len(parts)])

first(parts) == IF Len(parts) = 0 THEN None ELSE Some(parts[1])

NoExtensionText == "The file {} has no extension, please specify one"

UnsupportedText == "The extension {} is not supported"

match_ext_no_jpeg(t) ==
  CASE t = png -> Ok("Png")
    [] t = jpg -> Ok("Jpeg")
    [] t = webp -> Ok("Webp")
    [] OTHER -> Err(From_String(format(UnsupportedText, t)))

match_ext(t) ==
  CASE t = png -> Ok("Png")
    [] t = jpg -> Ok("Jpeg")
    [] t = jpeg -> Ok("Jpeg")
    [] t = webp -> Ok("Webp")
    [] OTHER -> Err(From_String(format(UnsupportedText, t)))

to_lowercase(t) ==
  [i \in 1..Len(t) |->
     CASE t[i] = "P" -> "p"
       [] t[i] = "N" -> "n"
       [] t[i] = "G" -> "g"
       [] OTHER -> t[i]]

from_str_lowercase(s) ==
  LET parts == split(s, DOT)
      l == last(parts)
  IN IF ~l.some THEN Err(From_String(format(NoExtensionText, s)))
     ELSE match_ext(to_lowercase(l.v))

from_str_first(s) ==
  LET parts == split(s, DOT)
      l == first(parts)
  IN IF ~l.some THEN Err(From_String(format(NoExtensionText, s)))
     ELSE match_ext(l.v)

from_str_no_jpg(s) ==
  LET parts == split(s, DOT)
      l == last(parts)
  IN IF ~l.some THEN Err(From_String(format(NoExtensionText, s)))
     ELSE IF l.v = jpg THEN Err(From_String(format(UnsupportedText, l.v)))
     ELSE match_ext(l.v)

from_str(s) ==
  LET parts == split(s, DOT)
      l == last(parts)
  IN IF ~l.some THEN Err(From_String(format(NoExtensionText, s)))
     ELSE match_ext(l.v)

(***************************************************************************)
(* State                                                                   *)
(***************************************************************************)
VARIABLES
  pc, argv, cli, input_ext, output_ext, img, ret,
  stdout, stderr, exit_code, out_file, trace,
  rs_s, rs_result, rs_tag, rs_text, rs_back

drv_vars == <<pc, argv, cli, input_ext, output_ext, img, ret,
              stdout, stderr, exit_code, out_file, trace>>

rs_vars == <<rs_s, rs_result, rs_tag, rs_text, rs_back>>

vars == <<pc, argv, cli, input_ext, output_ext, img, ret,
          stdout, stderr, exit_code, out_file, trace,
          rs_s, rs_result, rs_tag, rs_text, rs_back>>

NoCli == [input |-> <<>>, output |-> <<>>]

Argv ==
  { [kind |-> "ok", input |-> i, output |-> o] : i \in CliPaths, o \in CliPaths }
  \cup { [kind |-> k, input |-> <<>>, output |-> <<>>] :
           k \in {"usage_error", "display_help", "display_version"} }

OpenErrors == {"IoError", "Decoding", "Unsupported", "Limits"}

SaveErrors == {"IoError", "Encoding", "Unsupported", "Parameter"}

SuccessText == "Image successfully converted from {} to {}"

DrvIdle ==
  /\ pc = "idle"
  /\ argv = [kind |-> "none", input |-> <<>>, output |-> <<>>]
  /\ cli = NoCli
  /\ input_ext = "none"
  /\ output_ext = "none"
  /\ img = "none"
  /\ ret = Pending
  /\ stdout = <<>>
  /\ stderr = <<>>
  /\ exit_code = -1
  /\ out_file = "absent"
  /\ trace = <<>>

RsIdle ==
  /\ rs_s = <<>>
  /\ rs_result = Pending
  /\ rs_tag = "none"
  /\ rs_text = <<"?">>
  /\ rs_back = Pending

Init ==
  /\ pc = "cli_parse"
  /\ argv \in Argv
  /\ cli = NoCli
  /\ input_ext = "none"
  /\ output_ext = "none"
  /\ img = "none"
  /\ ret = Pending
  /\ stdout = <<>>
  /\ stderr = <<>>
  /\ exit_code = -1
  /\ out_file = "absent"
  /\ trace = <<>>
  /\ RsIdle

Step(name, ok) == [step |-> name, ok |-> ok]

(***************************************************************************)
(* run(), one action per statement                                         *)
(***************************************************************************)
Cli_parse ==
  /\ pc = "cli_parse"
  /\ trace' = Append(trace, Step("Cli::parse", argv.kind = "ok"))
  /\ CASE argv.kind = "ok" ->
            /\ cli' = [input |-> argv.input, output |-> argv.output]
            /\ pc' = "input_ext"
            /\ UNCHANGED <<stdout, stderr, exit_code>>
       [] argv.kind = "usage_error" ->
            /\ stderr' = Append(stderr, [prefix |-> "error:", text |-> "usage", arg |-> <<>>])
            /\ exit_code' = 2
            /\ pc' = "exited"
            /\ UNCHANGED <<cli, stdout>>
       [] OTHER ->
            /\ stdout' = Append(stdout, [text |-> argv.kind, from |-> <<>>, to |-> <<>>])
            /\ exit_code' = 0
            /\ pc' = "exited"
            /\ UNCHANGED <<cli, stderr>>
  /\ UNCHANGED <<argv, input_ext, output_ext, img, ret, out_file>>
  /\ UNCHANGED rs_vars

parse_input_ext ==
  /\ pc = "input_ext"
  /\ LET r == from_str(cli.input)
     IN /\ trace' = Append(trace, Step("input_ext", r.ok))
        /\ IF r.ok
           THEN /\ input_ext' = r.val
                /\ pc' = "output_ext"
                /\ UNCHANGED ret
           ELSE /\ ret' = Err(r.err)
                /\ pc' = "returned"
                /\ UNCHANGED input_ext
  /\ UNCHANGED <<argv, cli, output_ext, img, stdout, stderr, exit_code, out_file>>
  /\ UNCHANGED rs_vars

parse_output_ext_unchecked ==
  /\ pc = "output_ext"
  /\ LET r == from_str(cli.output)
     IN /\ trace' = Append(trace, Step("output_ext", r.ok))
        /\ output_ext' = IF r.ok THEN r.val ELSE "none"
        /\ pc' = "image_open"
        /\ UNCHANGED ret
  /\ UNCHANGED <<argv, cli, input_ext, img, stdout, stderr, exit_code, out_file>>
  /\ UNCHANGED rs_vars

parse_output_ext ==
  /\ pc = "output_ext"
  /\ LET r == from_str(cli.output)
     IN /\ trace' = Append(trace, Step("output_ext", r.ok))
        /\ IF r.ok
           THEN /\ output_ext' = r.val
                /\ pc' = "image_open"
                /\ UNCHANGED ret
           ELSE /\ ret' = Err(r.err)
                /\ pc' = "returned"
                /\ UNCHANGED output_ext
  /\ UNCHANGED <<argv, cli, input_ext, img, stdout, stderr, exit_code, out_file>>
  /\ UNCHANGED rs_vars

image_open ==
  /\ pc = "image_open"
  /\ \E outcome \in {"ok"} \cup OpenErrors :
       /\ trace' = Append(trace, Step("image::open", outcome = "ok"))
       /\ IF outcome = "ok"
          THEN /\ img' = "DynamicImage"
               /\ pc' = "img_save"
               /\ UNCHANGED ret
          ELSE /\ ret' = Err(From_ImageError(outcome))
               /\ pc' = "returned"
               /\ UNCHANGED img
  /\ UNCHANGED <<argv, cli, input_ext, output_ext, stdout, stderr, exit_code, out_file>>
  /\ UNCHANGED rs_vars

img_save ==
  /\ pc = "img_save"
  /\ \E outcome \in {"ok"} \cup SaveErrors :
       /\ trace' = Append(trace, Step("img.save", outcome = "ok"))
       /\ IF outcome = "ok"
          THEN /\ out_file' = "written"
               /\ pc' = "println"
               /\ UNCHANGED ret
          ELSE /\ out_file' \in {"absent", "partial"}
               /\ ret' = Err(From_ImageError(outcome))
               /\ pc' = "returned"
  /\ UNCHANGED <<argv, cli, input_ext, output_ext, img, stdout, stderr, exit_code>>
  /\ UNCHANGED rs_vars

println_success ==
  /\ pc = "println"
  /\ trace' = Append(trace, Step("println", TRUE))
  /\ stdout' = Append(stdout, [text |-> SuccessText,
                               from |-> fmt(input_ext), to |-> fmt(output_ext)])
  /\ ret' = Ok("unit")
  /\ pc' = "returned"
  /\ UNCHANGED <<argv, cli, input_ext, output_ext, img, stderr, exit_code, out_file>>
  /\ UNCHANGED rs_vars

main_exit_zero ==
  /\ pc = "returned"
  /\ IF ret.ok
     THEN /\ exit_code' = 0
          /\ UNCHANGED stderr
     ELSE /\ stderr' = Append(stderr, Display_Error(ret.err))
          /\ exit_code' = 0
  /\ pc' = "exited"
  /\ UNCHANGED <<argv, cli, input_ext, output_ext, img, ret, stdout, out_file, trace>>
  /\ UNCHANGED rs_vars

main ==
  /\ pc = "returned"
  /\ IF ret.ok
     THEN /\ exit_code' = 0
          /\ UNCHANGED stderr
     ELSE /\ stderr' = Append(stderr, Display_Error(ret.err))
          /\ exit_code' = 1
  /\ pc' = "exited"
  /\ UNCHANGED <<argv, cli, input_ext, output_ext, img, ret, stdout, out_file, trace>>
  /\ UNCHANGED rs_vars

Next ==
  \/ Cli_parse
  \/ parse_input_ext
  \/ parse_output_ext
  \/ image_open
  \/ img_save
  \/ println_success
  \/ main

Spec == Init /\ [][Next]_vars

(***************************************************************************)
(* The resolver on its own: from_str applied to a path, fmt applied to a   *)
(* variant, from_str applied to "x." followed by the rendering.            *)
(***************************************************************************)
InitResolve ==
  /\ DrvIdle
  /\ rs_s \in Paths
  /\ rs_result = Pending
  /\ rs_tag \in Extension
  /\ rs_text = <<"?">>
  /\ rs_back = Pending

Apply_from_str ==
  /\ rs_result = Pending
  /\ rs_result' = from_str(rs_s)
  /\ UNCHANGED <<rs_s, rs_tag, rs_text, rs_back>>
  /\ UNCHANGED drv_vars

Apply_fmt ==
  /\ rs_text = <<"?">>
  /\ rs_text' = fmt(rs_tag)
  /\ UNCHANGED <<rs_s, rs_result, rs_tag, rs_back>>
  /\ UNCHANGED drv_vars

Apply_from_str_fmt ==
  /\ rs_text # <<"?">>
  /\ rs_back = Pending
  /\ rs_back' = from_str(<<"x", DOT>> \o rs_text)
  /\ UNCHANGED <<rs_s, rs_result, rs_tag, rs_text>>
  /\ UNCHANGED drv_vars

NextResolve ==
  \/ Apply_from_str
  \/ Apply_fmt
  \/ Apply_from_str_fmt

SpecResolve == InitResolve /\ [][NextResolve]_vars

(***************************************************************************)
(* Properties                                                              *)
(***************************************************************************)
HasDot(s) == \E i \in 1..Len(s) : s[i] = DOT

AfterLastDot(s) ==
  IF HasDot(s)
  THEN LET i == CHOOSE k \in 1..Len(s) :
                  s[k] = DOT /\ \A m \in (k + 1)..Len(s) : s[m] # DOT
       IN SubSeq(s, i + 1, Len(s))
  ELSE s

Supported == {png, jpg, jpeg, webp}

Resolved == rs_result # Pending

IsNoExtension(r) ==
  ~r.ok /\ r.err.kind = "Extension" /\ r.err.text = NoExtensionText

IsUnsupported(r) ==
  ~r.ok /\ r.err.kind = "Extension" /\ r.err.text = UnsupportedText

\* C1: every string with no '.' character (the empty string included) fails
\* to resolve, and the failure is the "has no extension" error.
C1_NoDotIsNoExtension ==
  (Resolved /\ ~HasDot(rs_s)) => IsNoExtension(rs_result)

\* C2: "x." followed by png, jpg, jpeg or webp resolves: png to Png, webp to
\* Webp, jpg and jpeg both to Jpeg.
C2_SupportedTokensResolve ==
  (Resolved /\ \E t \in Supported : rs_s = <<"x", DOT>> \o t) =>
     /\ rs_result.ok
     /\ rs_result.err = NoErr
     /\ (rs_s = <<"x", DOT>> \o png => rs_result.val = "Png")
     /\ (rs_s = <<"x", DOT>> \o webp => rs_result.val = "Webp")
     /\ (rs_s = <<"x", DOT>> \o jpg => rs_result.val = "Jpeg")
     /\ (rs_s = <<"x", DOT>> \o jpeg => rs_result.val = "Jpeg")

C2_Witness ==
  /\ rs_s = <<"x", DOT>> \o jpg
  /\ rs_result.ok
  /\ rs_result.val = "Jpeg"

\* C3: a path whose final '.'-delimited segment is not exactly one of the
\* lowercase literals png, jpg, jpeg, webp fails with the "is not supported"
\* error carrying that segment; a case variant such as PNG is not normalized.
C3_OtherSegmentUnsupported ==
  (Resolved /\ AfterLastDot(rs_s) \notin Supported) =>
     /\ IsUnsupported(rs_result)
     /\ rs_result.err.arg = AfterLastDot(rs_s)

C3_Witness ==
  /\ AfterLastDot(rs_s) = <<"P", "N", "G">>
  /\ HasDot(rs_s)
  /\ IsUnsupported(rs_result)

Prefixes ==
  { <<>>, <<"x">>, <<"f", "i", "l", "e">>,
    <<"f", "i", "l", "e", DOT, "s", "o", "m", "e">>,
    <<"p", "n", "g", DOT, "b", "m", "p">>, <<DOT>> }

\* C4: for a path with at least one '.', the result depends only on the
\* segment after the last '.': any other prefix in front of the same final
\* segment resolves to the same result.
C4_OnlyLastSegmentMatters ==
  (Resolved /\ HasDot(rs_s)) =>
     \A pre \in Prefixes :
        from_str(pre \o <<DOT>> \o AfterLastDot(rs_s)) = rs_result

C4_Witness ==
  /\ rs_s = <<"f", "i", "l", "e", DOT, "s", "o", "m", "e", DOT>> \o jpg
  /\ rs_result = Ok("Jpeg")

StepOrder ==
  <<"Cli::parse", "input_ext", "output_ext", "image::open", "img.save", "println">>

StepDone(name, ok) == \E i \in 1..Len(trace) : trace[i] = Step(name, ok)

\* C5: the steps run in the fixed order resolve-input, resolve-output, decode,
\* encode, each at most once and each only after all earlier steps succeeded;
\* no output file exists unless both extensions resolved and decode succeeded.
C5_StepOrder ==
  /\ Len(trace) <= Len(StepOrder)
  /\ \A i \in 1..Len(trace) :
        /\ trace[i].step = StepOrder[i]
        /\ (i < Len(trace) => trace[i].ok)
  /\ (StepDone("image::open", TRUE) \/ StepDone("image::open", FALSE)) =>
        (StepDone("input_ext", TRUE) /\ StepDone("output_ext", TRUE))
  /\ (StepDone("img.save", TRUE) \/ StepDone("img.save", FALSE)) =>
        StepDone("image::open", TRUE)
  /\ (StepDone("input_ext", FALSE) \/ StepDone("output_ext", FALSE)
        \/ StepDone("image::open", FALSE)) => out_file = "absent"

C5_Witness ==
  /\ pc = "exited"
  /\ StepDone("input_ext", TRUE)
  /\ StepDone("output_ext", FALSE)
  /\ ~StepDone("image::open", TRUE)
  /\ ~StepDone("image::open", FALSE)
  /\ out_file = "absent"

C5_WitnessDecodeFailed ==
  /\ pc = "exited"
  /\ StepDone("image::open", FALSE)
  /\ out_file = "absent"

AllSucceeded ==
  /\ StepDone("Cli::parse", TRUE)
  /\ StepDone("input_ext", TRUE)
  /\ StepDone("output_ext", TRUE)
  /\ StepDone("image::open", TRUE)
  /\ StepDone("img.save", TRUE)

SomeFailed == \E i \in 1..Len(trace) : ~trace[i].ok

ConversionFailed ==
  \E i \in 1..Len(trace) : ~trace[i].ok /\ trace[i].step # "Cli::parse"

SuccessPrinted == \E i \in 1..Len(stdout) : stdout[i].text = SuccessText

\* C6 as stated: exit code 0 exactly when argument parsing, both resolutions,
\* decode and encode all succeed; on any failure the error is printed to
\* standard error, the exit code is 1 and no success message is printed.
\* (Stated for runs that ask for a conversion; --help and --version requests
\* are set aside.)
C6_Original ==
  (pc = "exited" /\ argv.kind \in {"ok", "usage_error"}) =>
     /\ (exit_code = 0 <=> AllSucceeded)
     /\ SomeFailed => (stderr # <<>> /\ exit_code = 1 /\ ~SuccessPrinted)

\* C6 amended: when Cli::parse returns, exit code 0 exactly when both
\* resolutions, decode and encode all succeed; a failure of one of these
\* prints the error to standard error, exits with code 1 and prints no
\* success message.  When Cli::parse does not return, the argument parser
\* ends the process itself: a usage error with a message on standard error
\* and exit code 2, a help or version request with exit code 0; neither
\* prints the success message.
C6_ExitCodes ==
  pc = "exited" =>
     /\ argv.kind = "ok" =>
          /\ (exit_code = 0 <=> AllSucceeded)
          /\ (AllSucceeded <=> SuccessPrinted)
          /\ ConversionFailed <=> ~AllSucceeded
          /\ ConversionFailed =>
               /\ stderr = <<Display_Error(ret.err)>>
               /\ exit_code = 1
          /\ AllSucceeded => stderr = <<>>
     /\ argv.kind = "usage_error" =>
          /\ exit_code = 2
          /\ stderr # <<>>
          /\ ~SuccessPrinted
          /\ Len(trace) = 1
     /\ argv.kind \in {"display_help", "display_version"} =>
          /\ exit_code = 0
          /\ stderr = <<>>
          /\ ~SuccessPrinted
          /\ Len(trace) = 1

C6_Witness ==
  /\ pc = "exited"
  /\ argv.kind = "ok"
  /\ StepDone("img.save", FALSE)
  /\ exit_code = 1
  /\ stderr # <<>>

C6_WitnessUsage ==
  /\ pc = "exited"
  /\ argv.kind = "usage_error"
  /\ exit_code = 2

\* C7 as stated: the error returned by run identifies which of decode and
\* encode failed: a decode failure is never an error that an encode failure
\* returns, and conversely.
C7_Original ==
  /\ StepDone("image::open", FALSE) =>
        ret.err \notin { From_ImageError(e) : e \in SaveErrors }
  /\ StepDone("img.save", FALSE) =>
        ret.err \notin { From_ImageError(e) : e \in OpenErrors }

\* C7 amended: a decode failure and an encode failure are both returned as
\* the same kind, Error::Image, wrapping the library's error and rendered
\* with the prefix "Image conversion error"; the kind does not tell the two
\* steps apart.
C7_BothAreImageErrors ==
  (StepDone("image::open", FALSE) \/ StepDone("img.save", FALSE)) =>
     /\ ~ret.ok
     /\ ret.err.kind = "Image"
     /\ ret.err.text \in OpenErrors \cup SaveErrors
     /\ pc = "exited" =>
          stderr = <<[prefix |-> "Image conversion error: {0}",
                      text |-> ret.err.text, arg |-> <<>>]>>

C7_Witness ==
  /\ pc = "exited"
  /\ StepDone("img.save", FALSE)
  /\ ret.err.kind = "Image"
  /\ ret.err.text = "IoError"

Rendering(t) ==
  CASE t = png -> png
    [] t = jpg -> jpeg
    [] t = jpeg -> jpeg
    [] t = webp -> webp
    [] OTHER -> <<"?">>

\* C8: on a successful run the one message on standard output is "Image
\* successfully converted from X to Y", X and Y the renderings of the tags of
\* the input and output paths (jpg is reported as jpeg); the message is
\* printed only after encode has succeeded.
C8_SuccessMessage ==
  /\ SuccessPrinted =>
        /\ StepDone("img.save", TRUE)
        /\ stdout = <<[text |-> SuccessText,
                       from |-> Rendering(AfterLastDot(cli.input)),
                       to |-> Rendering(AfterLastDot(cli.output))]>>
  /\ (pc = "exited" /\ argv.kind = "ok" /\ exit_code = 0) => SuccessPrinted

C8_Witness ==
  /\ pc = "exited"
  /\ cli.input = <<"p", "h", "o", "t", "o", DOT>> \o jpg
  /\ cli.output = <<"p", "h", "o", "t", "o", DOT>> \o png
  /\ stdout = <<[text |-> SuccessText, from |-> jpeg, to |-> png]>>

\* C9: each variant renders as exactly one of png, jpeg, webp, never jpg
\* (Png -> png, Jpeg -> jpeg, Webp -> webp), distinct variants render
\* differently, and resolving "x." followed by the rendering gives the
\* variant back.
C9_DisplayRoundTrip ==
  /\ rs_text # <<"?">> =>
        /\ rs_text \in {png, jpeg, webp}
        /\ rs_text # jpg
        /\ (rs_tag = "Png" => rs_text = png)
        /\ (rs_tag = "Jpeg" => rs_text = jpeg)
        /\ (rs_tag = "Webp" => rs_text = webp)
        /\ \A u \in Extension \ {rs_tag} : fmt(u) # rs_text
  /\ rs_back # Pending => rs_back = Ok(rs_tag)

C9_Witness ==
  /\ rs_tag = "Jpeg"
  /\ rs_text = jpeg
  /\ rs_back = Ok("Jpeg")

\* C10: the "has no extension" branch of from_str is never taken: every
\* failure carries the "is not supported" message, and a string without '.'
\* that is itself png, jpg, jpeg or webp resolves to the corresponding tag.
C10_NoExtensionBranchDead ==
  Resolved =>
     /\ ~IsNoExtension(rs_result)
     /\ (~rs_result.ok => IsUnsupported(rs_result))
     /\ Len(split(rs_s, DOT)) >= 1
     /\ (rs_s = png => rs_result = Ok("Png"))
     /\ (rs_s \in {jpg, jpeg} => rs_result = Ok("Jpeg"))
     /\ (rs_s = webp => rs_result = Ok("Webp"))

C10_Witness ==
  /\ rs_s = <<>>
  /\ IsUnsupported(rs_result)
  /\ rs_result.err.arg = <<>>

C10_WitnessToken ==
  /\ rs_s = png
  /\ rs_result = Ok("Png")

====
